---- MODULE Spec2Model ----
(***************************************************************************)
(* A model of the feature-and-aggregation pipeline of                      *)
(* src/make_altair_charts.py: download_price_data, add_return_features,    *)
(* build_sector_index, build_company_summary, build_sector_correlation,    *)
(* run in the order main() calls them.                                     *)
(*                                                                         *)
(* Numbers.  Prices are positive integers; every derived value is an exact *)
(* rational <<n, d>> in lowest terms with d > 0, and <<0, 0>> is NaN (the  *)
(* pandas missing value).  IEEE rounding is not modelled.  A standard      *)
(* deviation s is carried as the rational s*s and a correlation r as the   *)
(* rational sign(r)*r*r: both encodings are one-to-one on the values the   *)
(* code can produce (s >= 0, -1 <= r <= 1), so equality, definedness,      *)
(* "= 0" and "= 1" mean the same on the encoding as on the value.          *)
(*                                                                         *)
(* The volume column is carried through by the code and read by none of    *)
(* the five functions' computations; it is left out of the rows.           *)
(***************************************************************************)
EXTENDS Integers, Sequences, FiniteSets, TLC

VARIABLES pc, tickers, end_date, raw, layout,
          prices, sector_index, company_summary, corr_long

vars == <<pc, tickers, end_date, raw, layout,
          prices, sector_index, company_summary, corr_long>>

-----------------------------------------------------------------------------
(* Bounds of the model *)

\* number of trading dates in the requested range of the three-ticker runs
MaxDate == 3
\* number of trading dates in the requested range of the rolling-window runs
RollDates == 6
\* the price levels a provider response may carry
PriceLevels == {1, 2}

-----------------------------------------------------------------------------
(* Program constants *)

TICKERS ==
    [t \in {"AAPL", "MSFT", "XOM", "CVX", "JPM", "BAC", "UNH", "PFE"} |->
        CASE t \in {"AAPL", "MSFT"} -> "Technology"
          [] t \in {"XOM", "CVX"}   -> "Energy"
          [] t \in {"JPM", "BAC"}   -> "Finance"
          [] OTHER                  -> "Healthcare"]

\* rolling window of add_return_features
window == 5

\* base value of the sector index
IndexBase == 100

\* the field names of the provider's columns the pipeline keeps
Fields == {"Close", "Volume"}

-----------------------------------------------------------------------------
(* Exact rational arithmetic with NaN *)

NaN == <<0, 0>>

IsNaN(x) == x[2] = 0

Abs(n) == IF n < 0 THEN -n ELSE n

RECURSIVE GCD(_, _)
GCD(a, b) == IF b = 0 THEN a ELSE GCD(b, a % b)

\* n/d in lowest terms; a zero denominator is a missing value
Rat(n, d) ==
    IF d = 0 THEN NaN
    ELSE LET g == GCD(Abs(n), Abs(d))
             s == IF d < 0 THEN -1 ELSE 1
         IN  <<(s * n) \div g, (s * d) \div g>>

Whole(n) == <<n, 1>>

Add(x, y) == IF IsNaN(x) \/ IsNaN(y) THEN NaN
             ELSE Rat(x[1] * y[2] + y[1] * x[2], x[2] * y[2])

Sub(x, y) == IF IsNaN(x) \/ IsNaN(y) THEN NaN
             ELSE Rat(x[1] * y[2] - y[1] * x[2], x[2] * y[2])

Mul(x, y) == IF IsNaN(x) \/ IsNaN(y) THEN NaN
             ELSE Rat(x[1] * y[1], x[2] * y[2])

Div(x, y) == IF IsNaN(x) \/ IsNaN(y) THEN NaN
             ELSE Rat(x[1] * y[2], x[2] * y[1])

\* the non-missing values of a sequence, in order
Valid(s) == SelectSeq(s, LAMBDA x : ~IsNaN(x))

\* Sums over a sequence v of rationals without NaN are taken as integers over
\* a common denominator: v[i] = Num(v, CommonDen(v), i) / CommonDen(v).
RECURSIVE SetLcm(_)
SetLcm(D) ==
    IF D = {} THEN 1
    ELSE LET d == CHOOSE d \in D : TRUE
             l == SetLcm(D \ {d})
         IN  (l \div GCD(l, d)) * d

CommonDen(v) == SetLcm({v[i][2] : i \in 1..Len(v)})

Num(v, den, i) == v[i][1] * (den \div v[i][2])

RECURSIVE IntSum(_, _)
IntSum(k, i) == IF i = 0 THEN 0 ELSE k[i] + IntSum(k, i - 1)

\* Series.mean(): the mean of the non-missing values, NaN when there is none
Mean(s) ==
    LET v == Valid(s)
        n == Len(v)
        den == CommonDen(v)
        k == [i \in 1..n |-> Num(v, den, i)]
    IN  IF n = 0 THEN NaN ELSE Rat(IntSum(k, n), n * den)

\* the population standard deviation (ddof = 0), carried as its square
StdPopulation(s) ==
    LET v == Valid(s)
        n == Len(v)
        den == CommonDen(v)
        k == [i \in 1..n |-> Num(v, den, i)] \o <<>>
        s1 == IntSum(k, n)
        s2 == IntSum([i \in 1..n |-> k[i] * k[i]], n)
    IN  IF n < 1 THEN NaN
        ELSE Rat(n * s2 - s1 * s1, n * n * den * den)

\* Series.std() (ddof = 1) of the non-missing values, carried as its square:
\* sum((x - mean)^2) / (n - 1) = (n*sum(x^2) - sum(x)^2) / (n*(n - 1));
\* NaN with fewer than two values
Std(s) ==
    LET v == Valid(s)
        n == Len(v)
        den == CommonDen(v)
        k == [i \in 1..n |-> Num(v, den, i)] \o <<>>
        s1 == IntSum(k, n)
        s2 == IntSum([i \in 1..n |-> k[i] * k[i]], n)
    IN  IF n < 2 THEN NaN
        ELSE Rat(n * s2 - s1 * s1, n * (n - 1) * den * den)

-----------------------------------------------------------------------------
(* Orderings pandas sorts by *)

AlphaTickers == <<"AAPL", "BAC", "CVX", "JPM", "MSFT", "PFE", "UNH", "XOM">>

AlphaSectors == <<"Energy", "Finance", "Healthcare", "Technology">>

TickerRank(t) == CHOOSE i \in 1..Len(AlphaTickers) : AlphaTickers[i] = t

SectorRank(s) == CHOOSE i \in 1..Len(AlphaSectors) : AlphaSectors[i] = s

\* a table built row by row, held as a sequence
Table(f) == f \o <<>>

\* the sort keys ["Ticker", "date"] and ["sector", "date"] as one integer
TickerDateKey(r) == TickerRank(r.Ticker) * 1000 + r.date

SectorDateKey(r) == SectorRank(r.sector) * 1000 + r.date

\* DataFrame.sort_values by ["Ticker", "date"], ["sector", "date"] and "date"
SortTickerDate(s) == SortSeq(s, LAMBDA a, b : TickerDateKey(a) < TickerDateKey(b))

SortSectorDate(s) == SortSeq(s, LAMBDA a, b : SectorDateKey(a) < SectorDateKey(b))

SortDate(s) == SortSeq(s, LAMBDA a, b : a.date < b.date)

RECURSIVE Concat(_)
Concat(ss) == IF ss = <<>> THEN <<>> ELSE Head(ss) \o Concat(Tail(ss))

\* DataFrame.drop_duplicates(): the first occurrence of every row is kept
RECURSIVE DropDuplicates(_)
DropDuplicates(s) ==
    IF s = <<>> THEN <<>>
    ELSE LET init == DropDuplicates(SubSeq(s, 1, Len(s) - 1))
             x == s[Len(s)]
         IN  IF \E i \in 1..Len(init) : init[i] = x THEN init
             ELSE Append(init, x)

Range(s) == {s[i] : i \in 1..Len(s)}

-----------------------------------------------------------------------------
(* download_price_data *)

\* One ticker's price column over the dates 1..n of the request; 0 is a
\* missing price.  A security has no price before its listing date and one on
\* every date from then on, so the missing prices are the leading ones
\* (possibly all of them).
PriceColumns(n) ==
    {f \in [1..n -> PriceLevels \cup {0}] :
        \A i, j \in 1..n : (i < j /\ f[i] # 0) => f[j] # 0}

\* What yf.download may return for the request: any subset of the requested
\* tickers, each with a price column.
Responses(tl, n) ==
    UNION {[present -> PriceColumns(n)] : present \in SUBSET Range(tl)}

\* raw.columns.get_level_values(0)
Level0(resp, lay) == IF lay = "ticker_field" THEN DOMAIN resp ELSE Fields

\* the dates of the response's index, in the order the provider lists them
IndexDates(n, ord) == [i \in 1..n |-> IF ord = "asc" THEN i ELSE n + 1 - i]

\* raw[ticker] / raw.xs(ticker, axis=1, level=1), reset_index, Ticker column
TickerFrame(resp, lay, t, n, ord) ==
    LET col == resp[t]
        idx == IndexDates(n, ord)
    IN  [i \in 1..n |-> [date |-> idx[i], Ticker |-> t, adj_close |-> col[idx[i]]]]

\* the frames appended to all_rows, in ticker_list order
AllRows(tl, resp, lay, n, ord) ==
    LET kept == SelectSeq(tl, LAMBDA t : t \in Level0(resp, lay))
    IN  [i \in 1..Len(kept) |-> TickerFrame(resp, lay, kept[i], n, ord)]

\* the table after concat, rename, sector mapping and dropna
NormalizedTable(frames) ==
    LET df == Concat(frames)
        withSector == [i \in 1..Len(df) |->
            [date |-> df[i].date, Ticker |-> df[i].Ticker,
             adj_close |-> df[i].adj_close, sector |-> TICKERS[df[i].Ticker]]]
    IN  SelectSeq(withSector, LAMBDA r : r.adj_close # 0)

\* pd.concat raises ValueError on an empty list of frames
download_price_data ==
    /\ pc = "main"
    /\ \E resp \in Responses(tickers, end_date) :
       \E lay \in {"ticker_field", "field_ticker"} :
       \E ord \in {"asc", "desc"} :
         LET frames == AllRows(tickers, resp, lay, end_date, ord)
         IN  /\ raw' = resp
             /\ layout' = lay
             /\ IF frames = <<>>
                THEN /\ pc' = "failed"
                     /\ prices' = <<>>
                ELSE /\ pc' = "downloaded"
                     /\ prices' = NormalizedTable(frames)
    /\ UNCHANGED <<tickers, end_date, sector_index, company_summary, corr_long>>

-----------------------------------------------------------------------------
(* add_return_features *)

\* the positions up to i of all rows: a window taken without the groupby
GroupRunUngrouped(df, i) == [j \in 1..i |-> j]

\* groupby("Ticker"): the positions up to i of the rows of row i's ticker, in
\* table order
GroupRun(df, i) ==
    SelectSeq([j \in 1..i |-> j], LAMBDA j : df[j].Ticker = df[i].Ticker)

\* the last k elements of a sequence (all of them when there are fewer)
LastK(s, k) == SubSeq(s, IF Len(s) > k THEN Len(s) - k + 1 ELSE 1, Len(s))

\* pct_change() taken over the whole column, without the groupby
PctChangeUngrouped(df, i) ==
    IF i < 2 THEN NaN
    ELSE Sub(Div(Whole(df[i].adj_close), Whole(df[i - 1].adj_close)), Whole(1))

\* groupby("Ticker")["adj_close"].pct_change() at row i
PctChange(df, i) ==
    LET run == GroupRun(df, i)
    IN  IF Len(run) < 2 THEN NaN
        ELSE Sub(Div(Whole(df[i].adj_close), Whole(df[run[Len(run) - 1]].adj_close)),
                 Whole(1))

\* rolling(k).mean() over one window: NaN unless the window holds k values
RollingMean(w, k) ==
    IF Len(w) < k THEN NaN
    ELSE LET v == Valid(w) IN IF Len(v) < k THEN NaN ELSE Mean(v)

\* rolling(k).std() over one window: NaN unless the window holds k values
RollingStd(w, k) ==
    IF Len(w) < k THEN NaN
    ELSE LET v == Valid(w) IN IF Len(v) < k THEN NaN ELSE Std(v)

\* the (date, sector) keys of a table, each once
DateSectorKeys(df) == {<<df[i].date, df[i].sector>> : i \in 1..Len(df)}

\* the sector mean with a missing return counted as a return of zero
SectorDailyTableFillZero(df) ==
    [key \in DateSectorKeys(df) |->
        LET members == SelectSeq(df, LAMBDA r :
                           r.date = key[1] /\ r.sector = key[2])
        IN  Mean([j \in 1..Len(members) |->
                IF IsNaN(members[j].daily_return) THEN Whole(0)
                ELSE members[j].daily_return])]

\* dropna(daily_return).groupby(["date", "sector"])["daily_return"].mean()
SectorDailyTable(df) ==
    LET kept == SelectSeq(df, LAMBDA r : ~IsNaN(r.daily_return))
    IN  [key \in DateSectorKeys(kept) |->
            LET members == SelectSeq(kept, LAMBDA r :
                               r.date = key[1] /\ r.sector = key[2])
            IN  Mean([j \in 1..Len(members) |-> members[j].daily_return])]

\* merge(sector_daily, on=["date", "sector"], how="left") for one row
MergeLeft(sector_daily, r) ==
    IF <<r.date, r.sector>> \in DOMAIN sector_daily
    THEN sector_daily[<<r.date, r.sector>>]
    ELSE NaN

AddReturnFeatures(df) ==
    LET sorted == SortTickerDate(df)
        n == Len(sorted)
        withRet == Table([i \in 1..n |->
            [date |-> sorted[i].date, Ticker |-> sorted[i].Ticker,
             adj_close |-> sorted[i].adj_close, sector |-> sorted[i].sector,
             daily_return |-> PctChange(sorted, i)]])
        withRoll == Table([i \in 1..n |->
            LET run == LastK(GroupRun(withRet, i), window)
                w == Len(run)
            IN  [date |-> withRet[i].date, Ticker |-> withRet[i].Ticker,
                 adj_close |-> withRet[i].adj_close, sector |-> withRet[i].sector,
                 daily_return |-> withRet[i].daily_return,
                 ma_5 |-> RollingMean(
                     Table([j \in 1..w |-> Whole(withRet[run[j]].adj_close)]), window),
                 vol_5 |-> RollingStd(
                     Table([j \in 1..w |-> withRet[run[j]].daily_return]), window)]])
        sector_daily == SectorDailyTable(withRoll)
    IN  Table([i \in 1..n |->
            [date |-> withRoll[i].date, Ticker |-> withRoll[i].Ticker,
             adj_close |-> withRoll[i].adj_close, sector |-> withRoll[i].sector,
             daily_return |-> withRoll[i].daily_return,
             ma_5 |-> withRoll[i].ma_5, vol_5 |-> withRoll[i].vol_5,
             sector_daily_return |-> MergeLeft(sector_daily, withRoll[i])]])

add_return_features ==
    /\ pc = "downloaded"
    /\ prices' = AddReturnFeatures(prices)
    /\ pc' = "features"
    /\ UNCHANGED <<tickers, end_date, raw, layout,
                   sector_index, company_summary, corr_long>>

-----------------------------------------------------------------------------
(* build_sector_index *)

\* df[["date", "sector", "sector_daily_return"]]
SectorColumns(df) ==
    [i \in 1..Len(df) |->
        [date |-> df[i].date, sector |-> df[i].sector,
         sector_daily_return |-> df[i].sector_daily_return]]

\* (1 + r).cumprod() of a group's rows, times 100, at position i of the group
RECURSIVE CumProd(_, _)
CumProd(g, i) ==
    IF i = 0 THEN Whole(1)
    ELSE Mul(CumProd(g, i - 1), Add(Whole(1), g[i].sector_daily_return))

compute_index(group) ==
    LET g == SortDate(group)
    IN  Table([i \in 1..Len(g) |->
            [date |-> g[i].date, sector |-> g[i].sector,
             sector_daily_return |-> g[i].sector_daily_return,
             sector_index |-> Mul(Whole(IndexBase), CumProd(g, i))]])

\* compute_index applied to the whole table, without the groupby
BuildSectorIndexUngrouped(df) ==
    LET sector_df == SortSectorDate(
            SelectSeq(DropDuplicates(SectorColumns(df)),
                      LAMBDA r : ~IsNaN(r.sector_daily_return)))
        g == sector_df
    IN  Table([i \in 1..Len(g) |->
            [date |-> g[i].date, sector |-> g[i].sector,
             sector_daily_return |-> g[i].sector_daily_return,
             sector_index |-> Mul(Whole(IndexBase), CumProd(g, i))]])

\* groupby("sector", group_keys=False).apply(compute_index): the groups'
\* results, concatenated in ascending order of the sector
BuildSectorIndex(df) ==
    LET sector_df == SortSectorDate(
            SelectSeq(DropDuplicates(SectorColumns(df)),
                      LAMBDA r : ~IsNaN(r.sector_daily_return)))
        keys == SelectSeq(AlphaSectors,
                    LAMBDA s : \E i \in 1..Len(sector_df) : sector_df[i].sector = s)
    IN  Concat([k \in 1..Len(keys) |->
            compute_index(SelectSeq(sector_df, LAMBDA r : r.sector = keys[k]))])

build_sector_index ==
    /\ pc = "features"
    /\ sector_index' = BuildSectorIndex(prices)
    /\ pc' = "index"
    /\ UNCHANGED <<tickers, end_date, raw, layout,
                   prices, company_summary, corr_long>>

-----------------------------------------------------------------------------
(* build_company_summary *)

\* dropna(daily_return).groupby(["Ticker", "sector"]).agg(mean, std): one row
\* per ticker that keeps a row, in ascending order of the ticker
BuildCompanySummary(df) ==
    LET kept == SelectSeq(df, LAMBDA r : ~IsNaN(r.daily_return))
        keys == SelectSeq(AlphaTickers,
                    LAMBDA t : \E i \in 1..Len(kept) : kept[i].Ticker = t)
    IN  Table([k \in 1..Len(keys) |->
            LET rows == SelectSeq(kept, LAMBDA r : r.Ticker = keys[k])
                returns == Table([j \in 1..Len(rows) |-> rows[j].daily_return])
                avg_return == Mean(returns)
                volatility == Std(returns)
            IN  [Ticker |-> keys[k], sector |-> TICKERS[keys[k]],
                 avg_return |-> avg_return,
                 volatility |-> volatility,
                 avg_return_pct |-> Mul(avg_return, Whole(100)),
                 volatility_pct |-> Mul(volatility, Whole(100 * 100))]])

build_company_summary ==
    /\ pc = "index"
    /\ company_summary' = BuildCompanySummary(prices)
    /\ pc' = "summary"
    /\ UNCHANGED <<tickers, end_date, raw, layout,
                   prices, sector_index, corr_long>>

-----------------------------------------------------------------------------
(* build_sector_correlation *)

\* the pivot's cell at (date d, sector s): the row's value, NaN without a row
PivotCell(rows, d, s) ==
    IF \E i \in 1..Len(rows) : rows[i].date = d /\ rows[i].sector = s
    THEN rows[CHOOSE i \in 1..Len(rows) :
                  rows[i].date = d /\ rows[i].sector = s].sector_daily_return
    ELSE NaN

\* cov(x, y) / var(x) over the common dates: the regression slope, not the
\* correlation (carried as sign(r)*r*r like a correlation)
NanCorrSlope(colx, coly) ==
    LET both == SelectSeq([i \in 1..Len(colx) |-> i],
                    LAMBDA i : ~IsNaN(colx[i]) /\ ~IsNaN(coly[i]))
        nobs == Len(both)
        x == Table([i \in 1..nobs |-> colx[both[i]]])
        y == Table([i \in 1..nobs |-> coly[both[i]]])
        dx == CommonDen(x)
        dy == CommonDen(y)
        kx == Table([i \in 1..nobs |-> Num(x, dx, i)])
        ky == Table([i \in 1..nobs |-> Num(y, dy, i)])
        sx == IntSum(kx, nobs)
        sy == IntSum(ky, nobs)
        ssqdx == nobs * IntSum([i \in 1..nobs |-> kx[i] * kx[i]], nobs) - sx * sx
        ssqdy == nobs * IntSum([i \in 1..nobs |-> ky[i] * ky[i]], nobs) - sy * sy
        covxy == nobs * IntSum([i \in 1..nobs |-> kx[i] * ky[i]], nobs) - sx * sy
    IN  IF nobs < 1 THEN NaN
        ELSE IF ssqdx * ssqdy = 0 THEN NaN
        ELSE LET r2 == Rat(covxy * covxy * dx * dx, ssqdx * ssqdx * dy * dy)
             IN  IF covxy < 0 THEN <<-r2[1], r2[2]>> ELSE r2

\* DataFrame.corr() for two columns of the pivot (Pearson, min_periods = 1),
\* over the index dates on which both are defined; carried as sign(r)*r*r
NanCorr(colx, coly) ==
    LET both == SelectSeq([i \in 1..Len(colx) |-> i],
                    LAMBDA i : ~IsNaN(colx[i]) /\ ~IsNaN(coly[i]))
        nobs == Len(both)
        x == Table([i \in 1..nobs |-> colx[both[i]]])
        y == Table([i \in 1..nobs |-> coly[both[i]]])
        dx == CommonDen(x)
        dy == CommonDen(y)
        kx == Table([i \in 1..nobs |-> Num(x, dx, i)])
        ky == Table([i \in 1..nobs |-> Num(y, dy, i)])
        sx == IntSum(kx, nobs)
        sy == IntSum(ky, nobs)
        \* nobs * sum of squared deviations, nobs * sum of co-deviations, in
        \* units of 1/dx^2, 1/dy^2 and 1/(dx*dy)
        ssqdx == nobs * IntSum([i \in 1..nobs |-> kx[i] * kx[i]], nobs) - sx * sx
        ssqdy == nobs * IntSum([i \in 1..nobs |-> ky[i] * ky[i]], nobs) - sy * sy
        covxy == nobs * IntSum([i \in 1..nobs |-> kx[i] * ky[i]], nobs) - sx * sy
    IN  IF nobs < 1 THEN NaN
        ELSE IF ssqdx * ssqdy = 0 THEN NaN
        ELSE LET r2 == Rat(covxy * covxy, ssqdx * ssqdy)
             IN  IF covxy < 0 THEN <<-r2[1], r2[2]>> ELSE r2

\* the rows handed to pivot: dropna, drop_duplicates
PivotRows(df) ==
    DropDuplicates(SelectSeq(SectorColumns(df),
        LAMBDA r : ~IsNaN(r.sector_daily_return)))

\* the pivot's columns (sectors) and index (dates), ascending
PivotColumns(rows) ==
    SelectSeq(AlphaSectors, LAMBDA s : \E i \in 1..Len(rows) : rows[i].sector = s)

PivotIndex(rows) ==
    SelectSeq([d \in 1..end_date |-> d],
        LAMBDA d : \E i \in 1..Len(rows) : rows[i].date = d)

\* corr, reset_index, melt: one edge per (sector, sector_other), the edges of
\* one sector_other together, sectors ascending
CorrLong(cols, sector_series) ==
    LET k == Len(cols)
    IN  Table([e \in 1..(k * k) |->
            LET other == ((e - 1) \div k) + 1
                sec == ((e - 1) % k) + 1
            IN  [sector |-> cols[sec], sector_other |-> cols[other],
                 correlation |-> NanCorr(sector_series[sec], sector_series[other])]])

\* the correlation taken after dropping every date on which some sector is
\* undefined (complete cases), not pairwise
BuildSectorCorrelationListwise(df) ==
    LET rows == PivotRows(df)
        cols == PivotColumns(rows)
        dates == SelectSeq(PivotIndex(rows), LAMBDA d :
                     \A c \in 1..Len(cols) : ~IsNaN(PivotCell(rows, d, cols[c])))
    IN  CorrLong(cols, Table([c \in 1..Len(cols) |->
            Table([i \in 1..Len(dates) |-> PivotCell(rows, dates[i], cols[c])])]))

BuildSectorCorrelation(df) ==
    LET rows == PivotRows(df)
        cols == PivotColumns(rows)
        dates == PivotIndex(rows)
    IN  CorrLong(cols, Table([c \in 1..Len(cols) |->
            Table([i \in 1..Len(dates) |-> PivotCell(rows, dates[i], cols[c])])]))

build_sector_correlation ==
    /\ pc = "summary"
    /\ corr_long' = BuildSectorCorrelation(prices)
    /\ pc' = "done"
    /\ UNCHANGED <<tickers, end_date, raw, layout,
                   prices, sector_index, company_summary>>

-----------------------------------------------------------------------------

InitWith(tl, n) ==
    /\ pc = "main"
    /\ tickers = tl
    /\ end_date = n
    /\ raw = <<>>
    /\ layout = "none"
    /\ prices = <<>>
    /\ sector_index = <<>>
    /\ company_summary = <<>>
    /\ corr_long = <<>>

\* main() with a request for three tickers of two sectors
Init == InitWith(<<"MSFT", "XOM", "CVX">>, MaxDate)

\* main() with a request for three tickers of three sectors
InitCorr == InitWith(<<"MSFT", "XOM", "JPM">>, MaxDate)

\* main() with a request for two tickers over a range longer than the window
InitRoll == InitWith(<<"XOM", "CVX">>, RollDates)

Next ==
    \/ download_price_data
    \/ add_return_features
    \/ build_sector_index
    \/ build_company_summary
    \/ build_sector_correlation

\* the steps of main() up to add_return_features
NextRoll ==
    \/ download_price_data
    \/ add_return_features

Spec == Init /\ [][Next]_vars

SpecCorr == InitCorr /\ [][Next]_vars

SpecRoll == InitRoll /\ [][NextRoll]_vars

-----------------------------------------------------------------------------
(* Vocabulary of the properties.  The properties state sums and means over  *)
(* sets of rows with the rational operations Add, Sub, Mul, Div, not with   *)
(* the operators Mean, Std, NanCorr of the tables above.  A row is named by *)
(* its position in its table.                                               *)

Rows == 1..Len(prices)

\* the usable observations of the provider response: <<ticker, date, price>>
Usable == {<<t, d, raw[t][d]>> : t \in DOMAIN raw, d \in 1..end_date} \
          {<<t, d, 0>> : t \in DOMAIN raw, d \in 1..end_date}

\* the observations the table holds
Held == {<<prices[i].Ticker, prices[i].date, prices[i].adj_close>> : i \in Rows}

Defined(x) == ~IsNaN(x)

\* the sum of a function's values over the set S
RECURSIVE RatSumOver(_, _)
RatSumOver(f, S) ==
    IF S = {} THEN Whole(0)
    ELSE LET x == CHOOSE x \in S : TRUE
         IN  Add(f[x], RatSumOver(f, S \ {x}))

RatSum(f) == RatSumOver(f, DOMAIN f)

\* mean and sample variance of a function's values
RatMean(f) == Div(RatSum(f), Whole(Cardinality(DOMAIN f)))

RatVar(f) ==
    LET m == RatMean(f)
    IN  Div(RatSum([x \in DOMAIN f |-> LET d == Sub(f[x], m) IN Mul(d, d)]),
            Whole(Cardinality(DOMAIN f) - 1))

\* the rows of row i's ticker dated before it, and the latest of them
Earlier(i) ==
    {j \in Rows : prices[j].Ticker = prices[i].Ticker /\ prices[j].date < prices[i].date}

Previous(i) ==
    CHOOSE j \in Earlier(i) : \A j2 \in Earlier(i) : prices[j2].date <= prices[j].date

\* the rows of row i's ticker in the window of k rows ending at row i
WindowRows(i, k) ==
    LET upTo == {j \in Rows : /\ prices[j].Ticker = prices[i].Ticker
                              /\ prices[j].date <= prices[i].date}
    IN  {j \in upTo :
            Cardinality({j2 \in upTo : prices[j].date < prices[j2].date}) < k}

-----------------------------------------------------------------------------
(* C1 *)

\* C1: after add_return_features the table holds exactly the observations it
\* was given, and for every ticker the daily_return of its earliest row is
\* missing and that of every later row is price / previous price - 1, the
\* previous price being that of the ticker's latest earlier row, whatever
\* the order of the rows handed in.
C1_DailyReturn ==
    pc = "features" =>
        /\ Held = Usable
        /\ Len(prices) = Cardinality(Usable)
        /\ \A i \in Rows :
              IF Earlier(i) = {} THEN IsNaN(prices[i].daily_return)
              ELSE LET r == prices[i].daily_return
                       p == prices[Previous(i)].adj_close
                   IN  /\ Defined(r)
                       /\ r[1] * p = (prices[i].adj_close - p) * r[2]

\* two tickers hold rows, one of them three rows with a return that is not 0,
\* and the other a defined return
C1_Witness ==
    /\ pc = "features"
    /\ \E i, j \in Rows :
          /\ prices[i].Ticker # prices[j].Ticker
          /\ Cardinality(Earlier(i)) = 2
          /\ Defined(prices[i].daily_return) /\ prices[i].daily_return[1] # 0
          /\ Defined(prices[j].daily_return)

-----------------------------------------------------------------------------
(* C2 *)

\* the rows of row i's (date, sector) that have a return
SectorMembers(i) ==
    {j \in Rows : /\ prices[j].date = prices[i].date
                  /\ prices[j].sector = prices[i].sector
                  /\ Defined(prices[j].daily_return)}

\* C2: after add_return_features every row carries, as sector_daily_return,
\* the mean of daily_return over the rows of its (date, sector) that have a
\* return, the rows without one counted neither above nor below the line,
\* and a missing value when no row of its (date, sector) has a return.
C2_SectorDailyReturn ==
    pc = "features" =>
        \A i \in Rows :
            IF SectorMembers(i) = {} THEN IsNaN(prices[i].sector_daily_return)
            ELSE prices[i].sector_daily_return =
                     RatMean([j \in SectorMembers(i) |-> prices[j].daily_return])

\* one table with a (date, sector) of two different returns, one where a row
\* without a return sits beside a row with one, and one with no return at all
C2_Witness ==
    /\ pc = "features"
    /\ \E i \in Rows : \E j \in SectorMembers(i) :
          /\ i \in SectorMembers(i)
          /\ prices[j].daily_return # prices[i].daily_return
    /\ \E i, j \in Rows :
          /\ prices[i].date = prices[j].date /\ prices[i].sector = prices[j].sector
          /\ IsNaN(prices[j].daily_return) /\ Defined(prices[i].daily_return)
          /\ prices[i].daily_return[1] # 0
    /\ \E i \in Rows : SectorMembers(i) = {}

-----------------------------------------------------------------------------
(* C3 *)

Points == 1..Len(sector_index)

\* the points of point i's sector dated before it, and the latest of them
EarlierPoints(i) ==
    {j \in Points : /\ sector_index[j].sector = sector_index[i].sector
                    /\ sector_index[j].date < sector_index[i].date}

PreviousPoint(i) ==
    CHOOSE j \in EarlierPoints(i) :
        \A j2 \in EarlierPoints(i) : sector_index[j2].date <= sector_index[j].date

\* the (date, sector, return) triples of the table with a defined sector return
DefinedSectorReturns ==
    {<<prices[i].date, prices[i].sector, prices[i].sector_daily_return>> :
         i \in {j \in Rows : Defined(prices[j].sector_daily_return)}}

\* C3: build_sector_index yields, for every sector, one point per date on
\* which the sector's return is defined and none for the other dates, in
\* ascending date order; the first point's index is 100 * (1 + r) and every
\* later point's index is the sector's previous index * (1 + r), so no
\* sector's index depends on another sector's returns.
C3_SectorIndex ==
    pc = "index" =>
        /\ {<<sector_index[i].date, sector_index[i].sector,
              sector_index[i].sector_daily_return>> : i \in Points}
               = DefinedSectorReturns
        /\ Len(sector_index) = Cardinality(DefinedSectorReturns)
        /\ \A i, j \in Points :
              (i < j /\ sector_index[i].sector = sector_index[j].sector)
                  => sector_index[i].date < sector_index[j].date
        /\ \A i \in Points :
              sector_index[i].sector_index =
                  Mul(IF EarlierPoints(i) = {} THEN Whole(IndexBase)
                      ELSE sector_index[PreviousPoint(i)].sector_index,
                      Add(Whole(1), sector_index[i].sector_daily_return))

\* two sectors have points, one of them two points with returns that are not
\* 0, and the table holds a row whose sector return is missing
C3_Witness ==
    /\ pc = "index"
    /\ \E i, j \in Points :
          /\ sector_index[i].sector # sector_index[j].sector
          /\ sector_index[j].sector_daily_return[1] # 0
          /\ EarlierPoints(i) # {}
          /\ sector_index[i].sector_daily_return[1] # 0
          /\ sector_index[PreviousPoint(i)].sector_daily_return[1] # 0
    /\ \E i \in Rows : IsNaN(prices[i].sector_daily_return)

-----------------------------------------------------------------------------
(* C5 *)

\* the rows of ticker t that have a return
ReturnRows(t) == {i \in Rows : prices[i].Ticker = t /\ Defined(prices[i].daily_return)}

Summaries == 1..Len(company_summary)

\* C5: build_company_summary yields one row per ticker that has a return and
\* none for a ticker without one; the row's mean and sample (n - 1) standard
\* deviation are those of the ticker's defined returns, and with exactly one
\* return the mean is that return and the standard deviation is missing.
C5_CompanySummary ==
    pc = "summary" =>
        /\ {company_summary[m].Ticker : m \in Summaries}
               = {prices[i].Ticker : i \in {j \in Rows : Defined(prices[j].daily_return)}}
        /\ Len(company_summary)
               = Cardinality({company_summary[m].Ticker : m \in Summaries})
        /\ \A m \in Summaries :
              LET row == company_summary[m]
                  members == ReturnRows(row.Ticker)
                  returns == [i \in members |-> prices[i].daily_return]
              IN  /\ row.sector = TICKERS[row.Ticker]
                  /\ row.avg_return = RatMean(returns)
                  /\ IF Cardinality(members) = 1
                     THEN /\ IsNaN(row.volatility)
                          /\ \A i \in members : row.avg_return = prices[i].daily_return
                     ELSE row.volatility = RatVar(returns)

\* one ticker with one return, one with several and a standard deviation
\* that is not 0, and one that holds a row and gets no summary
C5_Witness ==
    /\ pc = "summary"
    /\ \E m1, m2 \in Summaries :
          /\ Cardinality(ReturnRows(company_summary[m1].Ticker)) = 1
          /\ company_summary[m1].avg_return[1] # 0
          /\ Cardinality(ReturnRows(company_summary[m2].Ticker)) > 1
          /\ Defined(company_summary[m2].volatility)
          /\ company_summary[m2].volatility[1] # 0
    /\ \E i \in Rows : \A m \in Summaries : company_summary[m].Ticker # prices[i].Ticker

-----------------------------------------------------------------------------
(* C8 *)

\* C8: after add_return_features with window 5, for every row of a ticker:
\* ma_5 is defined exactly when the ticker has 5 rows up to this one and is
\* then the mean of their prices; vol_5 is defined exactly when the last 5
\* rows of the ticker up to this one all have a return and is then the sample
\* standard deviation of those returns; the windows hold rows of the row's
\* own ticker only.
C8_Rolling ==
    pc = "features" =>
        \A i \in Rows :
            LET w == WindowRows(i, window)
                ma == prices[i].ma_5
                vol == prices[i].vol_5
            IN  /\ Defined(ma) <=> Cardinality(w) = window
                /\ Defined(ma) =>
                       ma = RatMean([j \in w |-> Whole(prices[j].adj_close)])
                /\ Defined(vol) <=>
                       Cardinality({j \in w : Defined(prices[j].daily_return)}) = window
                /\ Defined(vol) =>
                       vol = RatVar([j \in w |-> prices[j].daily_return])

\* one ticker with a rolling volatility that is not 0, beside a ticker with
\* several rows, fewer than the window
C8_Witness ==
    /\ pc = "features"
    /\ \E i, j \in Rows :
          /\ Defined(prices[i].vol_5) /\ prices[i].vol_5[1] # 0
          /\ prices[j].Ticker # prices[i].Ticker
          /\ Cardinality({j2 \in Rows : prices[j2].Ticker = prices[j].Ticker}) < window
          /\ Cardinality(Earlier(j)) > 0

-----------------------------------------------------------------------------
(* C4, C9 *)

Edges == 1..Len(corr_long)

\* the sectors with a defined sector return, and the dates of sector A's
\* defined returns
ReturnSectors ==
    {prices[i].sector : i \in {j \in Rows : Defined(prices[j].sector_daily_return)}}

ReturnDates(A) ==
    {prices[i].date : i \in {j \in Rows : /\ prices[j].sector = A
                                          /\ Defined(prices[j].sector_daily_return)}}

\* sector A's return on date d, for d in ReturnDates(A)
SectorReturn(A, d) ==
    prices[CHOOSE i \in Rows : prices[i].sector = A /\ prices[i].date = d]
        .sector_daily_return

\* sector A's returns on the dates of O are all the same (as they are when O
\* has fewer than two dates)
Constant(A, O) == \A d1, d2 \in O : SectorReturn(A, d1) = SectorReturn(A, d2)

EdgesOf(A, B) ==
    {e \in Edges : corr_long[e].sector = A /\ corr_long[e].sector_other = B}

Correlation(A, B) == corr_long[CHOOSE e \in EdgesOf(A, B) : TRUE].correlation

\* Pearson's r of A's and B's returns over the dates of O, as sign(r)*r*r
Pearson(A, B, O) ==
    LET a == [d \in O |-> SectorReturn(A, d)]
        b == [d \in O |-> SectorReturn(B, d)]
        ma == RatMean(a)
        mb == RatMean(b)
        saa == RatSum([d \in O |-> Mul(Sub(a[d], ma), Sub(a[d], ma))])
        sbb == RatSum([d \in O |-> Mul(Sub(b[d], mb), Sub(b[d], mb))])
        sab == RatSum([d \in O |-> Mul(Sub(a[d], ma), Sub(b[d], mb))])
        r2 == Div(Mul(sab, sab), Mul(saa, sbb))
    IN  IF sab[1] < 0 THEN <<-r2[1], r2[2]>> ELSE r2

\* C4 (as amended): the edge list of build_sector_correlation holds exactly
\* one edge for every ordered pair of sectors that have a defined sector
\* return, the diagonal included, and no other edge; correlation(A, B) equals
\* correlation(B, A); correlation(A, A) is 1 when A's defined returns are not
\* all the same (so A has at least two) and is missing otherwise.
C4_Symmetric ==
    pc = "done" =>
        /\ \A e \in Edges : /\ corr_long[e].sector \in ReturnSectors
                            /\ corr_long[e].sector_other \in ReturnSectors
        /\ \A A, B \in ReturnSectors :
              /\ Cardinality(EdgesOf(A, B)) = 1
              /\ Correlation(A, B) = Correlation(B, A)
        /\ \A A \in ReturnSectors :
              Correlation(A, A) =
                  IF Constant(A, ReturnDates(A)) THEN NaN ELSE Whole(1)

\* three sectors have edges: one with a diagonal of 1, one with a missing
\* diagonal, and two different sectors with a defined correlation
C4_Witness ==
    /\ pc = "done"
    /\ Cardinality(ReturnSectors) = 3
    /\ \E A, B, C \in ReturnSectors :
          /\ A # B
          /\ Defined(Correlation(A, B))
          /\ Correlation(A, A) = Whole(1)
          /\ IsNaN(Correlation(C, C))

\* C4 (as stated): the edge list holds both orderings and the diagonal, is
\* symmetric, and correlation(A, A) is 1 for every sector A with at least one
\* defined sector return.
C4_DiagonalOne ==
    pc = "done" =>
        /\ \A A, B \in ReturnSectors :
              /\ Cardinality(EdgesOf(A, B)) = 1
              /\ Correlation(A, B) = Correlation(B, A)
        /\ \A A \in ReturnSectors : Correlation(A, A) = Whole(1)

\* the dates on which both A and B have a defined sector return
Overlap(A, B) == ReturnDates(A) \cap ReturnDates(B)

EqualOn(A, B, O) == \A d \in O : SectorReturn(A, d) = SectorReturn(B, d)

\* C9 (as amended): the correlation of every pair of sectors (A, B) is
\* Pearson's r over exactly the dates on which both have a defined sector
\* return, whatever the other sectors have on those dates; it is missing,
\* not 0, when there are fewer than 2 such dates or when A's or B's returns
\* on them are all the same; two sectors whose returns are equal on every
\* such date, and not all the same, get 1.
C9_PairwiseComplete ==
    pc = "done" =>
        \A A, B \in ReturnSectors :
            LET O == Overlap(A, B)
                r == Correlation(A, B)
            IN  /\ Cardinality(O) < 2 => IsNaN(r)
                /\ r = IF Constant(A, O) \/ Constant(B, O) THEN NaN
                       ELSE Pearson(A, B, O)
                /\ (EqualOn(A, B, O) /\ ~Constant(A, O)) => r = Whole(1)

\* two different sectors correlate over dates on which a third has no
\* return; two have fewer than 2 dates in common; two different sectors have
\* equal returns and the correlation 1
C9_Witness ==
    /\ pc = "done"
    /\ \E A, B, C \in ReturnSectors :
          /\ A # B
          /\ Defined(Correlation(A, B))
          /\ ~(Overlap(A, B) \subseteq ReturnDates(C))
          /\ Cardinality(Overlap(A, C)) < 2
    /\ \E A, B \in ReturnSectors :
          /\ A # B
          /\ EqualOn(A, B, Overlap(A, B))
          /\ Correlation(A, B) = Whole(1)

\* C9 (as stated): the correlation of (A, B) is taken over the dates on which
\* both are defined, is missing with fewer than 2 such dates, and is 1 for
\* two sectors whose returns are equal on every such date.
C9_EqualReturnsOne ==
    pc = "done" =>
        \A A, B \in ReturnSectors :
            LET O == Overlap(A, B)
                r == Correlation(A, B)
            IN  /\ Cardinality(O) < 2 => IsNaN(r)
                /\ (~Constant(A, O) /\ ~Constant(B, O)) => r = Pearson(A, B, O)
                /\ (A # B /\ Cardinality(O) >= 2 /\ EqualOn(A, B, O))
                       => r = Whole(1)

-----------------------------------------------------------------------------
(* C6, C7, C10 *)

\* the requested tickers the response holds, and those it does not
Present == Range(tickers) \cap DOMAIN raw

Absent == Range(tickers) \ DOMAIN raw

\* C6: when no usable row is left after download_price_data, an error is
\* raised and the run stops there: no empty table is returned and none of
\* the later steps runs.
C6_DataUnavailable ==
    (pc # "main" /\ prices = <<>>) => pc = "failed"

\* C7: when the response lacks a requested ticker and holds another, no
\* error is raised for the one it lacks, and every usable observation of the
\* tickers it holds is in the table.
C7_AbsentSkipped ==
    (pc # "main" /\ Absent # {} /\ Present # {}) =>
        /\ pc # "failed"
        /\ Usable \subseteq Held

\* C10: whether the response's columns are (ticker, field) or (field,
\* ticker), every usable observation of every requested ticker the response
\* holds is in the table, under that ticker's name.
C10_BothLayouts ==
    \A lay \in {"ticker_field", "field_ticker"} :
        (pc # "main" /\ layout = lay) =>
            /\ Present # {} => pc # "failed"
            /\ Usable \subseteq Held

====
